---- MODULE Spec2Model ----
(***************************************************************************)
(* Model of the spaced-repetition scheduler of the personal learning       *)
(* platform (src/src/algorithms/spaced-repetition.ts) and of the flashcard *)
(* entity it works on (src/src/types/flashcard.ts).                        *)
(*                                                                         *)
(* Numbers.  Ease factors are JavaScript doubles in the source.  Here an   *)
(* ease factor is an integer count of thousandths (2.5 is 2500), and every *)
(* arithmetic step is exact.  The input sets below contain only values on  *)
(* which the exact computation and the IEEE-754 computation of the source  *)
(* give the same result (the products interval * easeFactor that fall on a *)
(* half in decimal notation, such as 5 * 2.5, are included only where the  *)
(* double product is that half as well).                                   *)
(*                                                                         *)
(* Time.  A Date is an integer count of clock ticks; a calendar day has    *)
(* TicksPerDay ticks and Date.setDate(getDate() + n) adds n whole days     *)
(* (no daylight-saving shift).  Null stands for JavaScript's null.         *)
(***************************************************************************)
EXTENDS Integers, Sequences, FiniteSets, TLC

\* ---------------------------------------------------------------- bounds
MaxClock == 3
TicksPerDay == 2
MaxDeck == 3
MaxCards == 1
MaxReviews == 3
MaxSentences == 3
MaxTasks == 2

\* ------------------------------------------------------------- constants
SM2_MIN_EASE_FACTOR == 1300
DEFAULT_EASE_FACTOR == 2500
QualityError == "Quality must be between 0 and 5"
Null == -1

\* ----------------------------------------------------------------- state
VARIABLES
    clock,   \* the wall clock that `new Date()` reads
    card,    \* the FlashCard object the caller holds and passes in
    call,    \* the last call: operation, snapshot of the argument, inputs
    ret,     \* the outcome of the last call: an exception or a value
    cards,   \* the FlashCard[] array the caller holds and passes to the queries
    log,     \* per card of `cards`: when it was created, the qualities reviewed
    query,   \* the last query on `cards` since the array was last changed:
             \* operation, inputs, returned value
    storage, \* the browser's localStorage: the entries in key(i) order
    io,      \* the last StorageService call: operation, argument, outcome
    tasks,   \* the review tasks in flight: position, card held, inputs
    ui,      \* a mounted FlashCardComponent: props, state, onRate calls made
    session, \* the StudySession the caller holds and the last call on it
    gen      \* the last generateFlashcards call: text, options, result

vars == <<clock, card, call, ret, cards, log, query,
          storage, io, tasks, ui, session, gen>>
fnVars == <<card, call, ret>>
deckVars == <<cards, log, query>>
svcVars == <<storage, io, tasks, ui, session, gen>>

\* ------------------------------------------------------------ arithmetic
Max(a, b) == IF a >= b THEN a ELSE b

\* Math.round(num / den) for den > 0: the nearest integer, a half going up
\* (towards +infinity), which is floor(x + 1/2).
MathRound(num, den) == (2 * num + den) \div (2 * den)

\* Math.round(newEaseFactor * 100) / 100 on thousandths
RoundTo2Decimals(ef) == MathRound(ef * 100, 1000) * 10

\* date.setDate(date.getDate() + days)
AddDays(date, days) == date + days * TicksPerDay

\* --------------------------------------------------------- flashcard.ts
\* mutant: a new card is scheduled for the next day
createFlashCardDueTomorrow(question, answer, now) ==
    [ id               |-> "card-1",
      question         |-> question,
      answer           |-> answer,
      tags             |-> << >>,
      contentSourceId  |-> Null,
      contentTimestamp |-> Null,
      repetitions      |-> 0,
      easeFactor       |-> DEFAULT_EASE_FACTOR,
      interval         |-> 0,
      lastReviewed     |-> Null,
      nextReview       |-> AddDays(now, 1),
      createdAt        |-> now,
      updatedAt        |-> now ]

createFlashCard(question, answer, now) ==
    [ id               |-> "card-1",
      question         |-> question,
      answer           |-> answer,
      tags             |-> << >>,
      contentSourceId  |-> Null,
      contentTimestamp |-> Null,
      repetitions      |-> 0,
      easeFactor       |-> DEFAULT_EASE_FACTOR,
      interval         |-> 0,
      lastReviewed     |-> Null,
      nextReview       |-> now,
      createdAt        |-> now,
      updatedAt        |-> now ]

\* --------------------------------------------------- spaced-repetition.ts
\* mutant: the upper bound of the range check is off by one
InvalidQualityUpperOffByOne(quality) == quality < 0 \/ quality > 6

\* the range check at the head of calculateNextReview
InvalidQuality(quality) == quality < 0 \/ quality > 5

\* mutant: the quadratic term of the SM-2 formula is dropped
EaseDeltaLinear(quality) == 100 - (5 - quality) * 80

\* 0.1 - (5 - q) * (0.08 + (5 - q) * 0.02), in thousandths
EaseDelta(quality) == 100 - (5 - quality) * (80 + (5 - quality) * 20)

\* mutant: the ease factor is not clamped at the minimum
NewEaseFactorNoFloor(easeFactor, quality) == easeFactor + EaseDelta(quality)

\* mutant: the ease factor is clamped at 1.0
NewEaseFactorFloorsAtOne(easeFactor, quality) ==
    Max(1000, easeFactor + EaseDelta(quality))

\* Math.max(SM2_MIN_EASE_FACTOR, easeFactor + delta): clamped, not yet rounded
NewEaseFactor(easeFactor, quality) ==
    Max(SM2_MIN_EASE_FACTOR, easeFactor + EaseDelta(quality))

\* mutant: a failed review resets the interval but keeps the repetitions
NewScheduleKeepsRepetitions(repetitions, interval, newEaseFactor, quality) ==
    IF quality < 3
    THEN [repetitions |-> repetitions, interval |-> 1]
    ELSE LET newRepetitions == repetitions + 1 IN
         [ repetitions |-> newRepetitions,
           interval    |-> IF newRepetitions = 1 THEN 1
                           ELSE IF newRepetitions = 2 THEN 6
                           ELSE MathRound(interval * newEaseFactor, 1000) ]

\* mutant: the second successful review is not special-cased to 6 days
NewScheduleNoSecondStep(repetitions, interval, newEaseFactor, quality) ==
    IF quality < 3
    THEN [repetitions |-> 0, interval |-> 1]
    ELSE LET newRepetitions == repetitions + 1 IN
         [ repetitions |-> newRepetitions,
           interval    |-> IF newRepetitions = 1 THEN 1
                           ELSE MathRound(interval * newEaseFactor, 1000) ]

\* mutant: a failed review takes one repetition off instead of all
NewScheduleStepsBack(repetitions, interval, newEaseFactor, quality) ==
    IF quality < 3
    THEN [repetitions |-> Max(0, repetitions - 1), interval |-> 1]
    ELSE LET newRepetitions == repetitions + 1 IN
         [ repetitions |-> newRepetitions,
           interval    |-> IF newRepetitions = 1 THEN 1
                           ELSE IF newRepetitions = 2 THEN 6
                           ELSE MathRound(interval * newEaseFactor, 1000) ]

\* mutant: from the third success on the interval grows by one day
NewScheduleAddsADay(repetitions, interval, newEaseFactor, quality) ==
    IF quality < 3
    THEN [repetitions |-> 0, interval |-> 1]
    ELSE LET newRepetitions == repetitions + 1 IN
         [ repetitions |-> newRepetitions,
           interval    |-> IF newRepetitions = 1 THEN 1
                           ELSE IF newRepetitions = 2 THEN 6
                           ELSE interval + 1 ]

\* the branch on quality: new repetitions and new interval
NewSchedule(repetitions, interval, newEaseFactor, quality) ==
    IF quality < 3
    THEN [repetitions |-> 0, interval |-> 1]
    ELSE LET newRepetitions == repetitions + 1 IN
         [ repetitions |-> newRepetitions,
           interval    |-> IF newRepetitions = 1 THEN 1
                           ELSE IF newRepetitions = 2 THEN 6
                           ELSE MathRound(interval * newEaseFactor, 1000) ]

\* mutant: the interval is scaled by the card's old ease factor
calculateNextReviewOldEase(c, quality, now) ==
    IF InvalidQuality(quality)
    THEN [threw |-> TRUE, error |-> QualityError, arg |-> c, value |-> << >>]
    ELSE LET newEaseFactor == NewEaseFactor(c.easeFactor, quality)
             sched == NewSchedule(c.repetitions, c.interval, c.easeFactor, quality)
         IN  [ threw |-> FALSE, error |-> "", arg |-> c,
               value |-> << [ repetitions |-> sched.repetitions,
                              easeFactor  |-> RoundTo2Decimals(newEaseFactor),
                              interval    |-> sched.interval,
                              nextReview  |-> AddDays(now, sched.interval) ] >> ]

\* calculateNextReview(card, quality), called when the wall clock reads `now`.
\* The outcome records the exception (if any), the argument object as it is
\* after the call, and the returned ReviewResult (a sequence of length 0 or 1).
calculateNextReview(c, quality, now) ==
    IF InvalidQuality(quality)
    THEN [threw |-> TRUE, error |-> QualityError, arg |-> c, value |-> << >>]
    ELSE LET newEaseFactor == NewEaseFactor(c.easeFactor, quality)
             sched == NewSchedule(c.repetitions, c.interval, newEaseFactor, quality)
         IN  [ threw |-> FALSE, error |-> "", arg |-> c,
               value |-> << [ repetitions |-> sched.repetitions,
                              easeFactor  |-> RoundTo2Decimals(newEaseFactor),
                              interval    |-> sched.interval,
                              nextReview  |-> AddDays(now, sched.interval) ] >> ]

\* mutant: the fields are assigned on the argument itself (no copy)
updateCardAfterReviewInPlace(c, quality, reviewDate, tCalc, tUpd) ==
    LET r == calculateNextReview(c, quality, tCalc) IN
    IF r.threw
    THEN [threw |-> TRUE, error |-> r.error, arg |-> r.arg, value |-> << >>]
    ELSE LET updated == [ r.arg EXCEPT
                            !.repetitions  = r.value[1].repetitions,
                            !.easeFactor   = r.value[1].easeFactor,
                            !.interval     = r.value[1].interval,
                            !.lastReviewed = reviewDate,
                            !.nextReview   = r.value[1].nextReview,
                            !.updatedAt    = tUpd ]
         IN [threw |-> FALSE, error |-> "", arg |-> updated, value |-> <<updated>>]

\* mutant: lastReviewed is stamped with the clock, not with reviewDate
updateCardAfterReviewStampsNow(c, quality, reviewDate, tCalc, tUpd) ==
    LET r == calculateNextReview(c, quality, tCalc) IN
    IF r.threw
    THEN [threw |-> TRUE, error |-> r.error, arg |-> r.arg, value |-> << >>]
    ELSE [ threw |-> FALSE, error |-> "", arg |-> r.arg,
           value |-> << [ r.arg EXCEPT
                            !.repetitions  = r.value[1].repetitions,
                            !.easeFactor   = r.value[1].easeFactor,
                            !.interval     = r.value[1].interval,
                            !.lastReviewed = tUpd,
                            !.nextReview   = r.value[1].nextReview,
                            !.updatedAt    = tUpd ] >> ]

\* mutant: updatedAt is stamped on the argument before it is copied
updateCardAfterReviewTouchesArgument(c, quality, reviewDate, tCalc, tUpd) ==
    LET r == calculateNextReview(c, quality, tCalc) IN
    IF r.threw
    THEN [threw |-> TRUE, error |-> r.error, arg |-> r.arg, value |-> << >>]
    ELSE [ threw |-> FALSE, error |-> "", arg |-> [r.arg EXCEPT !.updatedAt = tUpd],
           value |-> << [ r.arg EXCEPT
                            !.repetitions  = r.value[1].repetitions,
                            !.easeFactor   = r.value[1].easeFactor,
                            !.interval     = r.value[1].interval,
                            !.lastReviewed = reviewDate,
                            !.nextReview   = r.value[1].nextReview,
                            !.updatedAt    = tUpd ] >> ]

\* updateCardAfterReview(card, quality, reviewDate): calculateNextReview runs
\* when the clock reads tCalc, the updatedAt timestamp is taken at tUpd.
updateCardAfterReview(c, quality, reviewDate, tCalc, tUpd) ==
    LET r == calculateNextReview(c, quality, tCalc) IN
    IF r.threw
    THEN [threw |-> TRUE, error |-> r.error, arg |-> r.arg, value |-> << >>]
    ELSE [ threw |-> FALSE, error |-> "", arg |-> r.arg,
           value |-> << [ r.arg EXCEPT
                            !.repetitions  = r.value[1].repetitions,
                            !.easeFactor   = r.value[1].easeFactor,
                            !.interval     = r.value[1].interval,
                            !.lastReviewed = reviewDate,
                            !.nextReview   = r.value[1].nextReview,
                            !.updatedAt    = tUpd ] >> ]

\* ------------------------------------------- the queries on a card array
\* date.toDateString(): the calendar day a Date falls on
ToDateString(date) == date \div TicksPerDay

\* new Date(date).setHours(23, 59, 59, 999): the last instant of date's day
EndOfDay(date) == ToDateString(date) * TicksPerDay + (TicksPerDay - 1)

\* mutant: x goes in front of the elements with the same nextReview
RECURSIVE InsertBeforeTies(_, _)
InsertBeforeTies(x, arr) ==
    IF arr = << >> THEN <<x>>
    ELSE IF arr[1].nextReview < x.nextReview
         THEN <<arr[1]>> \o InsertBeforeTies(x, Tail(arr))
         ELSE <<x>> \o arr

\* Insertion of x into an array sorted by nextReview, behind every element
\* whose nextReview is not later (compare(a, b) = a.nextReview - b.nextReview)
RECURSIVE InsertByNextReview(_, _)
InsertByNextReview(x, arr) ==
    IF arr = << >> THEN <<x>>
    ELSE IF arr[1].nextReview <= x.nextReview
         THEN <<arr[1]>> \o InsertByNextReview(x, Tail(arr))
         ELSE <<x>> \o arr

\* arr.sort((a, b) => a.nextReview.getTime() - b.nextReview.getTime()):
\* Array.prototype.sort is stable (ECMAScript 2019, every runtime Next 15 has)
RECURSIVE SortByNextReview(_)
SortByNextReview(arr) ==
    IF arr = << >> THEN << >>
    ELSE InsertByNextReview(arr[Len(arr)], SortByNextReview(SubSeq(arr, 1, Len(arr) - 1)))

\* mutant: a card due exactly at currentDate is left out
getDueCardsStrict(arr, currentDate) ==
    LET due(c) == c.nextReview < currentDate IN
    [input |-> arr, value |-> SortByNextReview(SelectSeq(arr, due))]

\* mutant: the due cards are returned in input order
getDueCardsUnsorted(arr, currentDate) ==
    LET due(c) == c.nextReview <= currentDate IN
    [input |-> arr, value |-> SelectSeq(arr, due)]

\* mutant: the array passed in is sorted in place before it is filtered
getDueCardsSortsInput(arr, currentDate) ==
    LET due(c) == c.nextReview <= currentDate IN
    [input |-> SortByNextReview(arr),
     value |-> SelectSeq(SortByNextReview(arr), due)]

\* getDueCards(cards, currentDate): the array that was passed in as it is
\* after the call, and the returned array
getDueCards(arr, currentDate) ==
    LET due(c) == c.nextReview <= currentDate IN
    [input |-> arr, value |-> SortByNextReview(SelectSeq(arr, due))]

\* mutant: the count leaves out a card due exactly at currentDate
getDueCardsCountStrict(arr, currentDate) ==
    LET due(c) == c.nextReview < currentDate IN
    [input |-> arr, value |-> Len(SelectSeq(arr, due))]

\* getDueCardsCount(cards, currentDate)
getDueCardsCount(arr, currentDate) ==
    LET due(c) == c.nextReview <= currentDate IN
    [input |-> arr, value |-> Len(SelectSeq(arr, due))]

\* mutant: every card due before currentDate is overdue
UrgencyBucketOverdueByInstant(c, currentDate) ==
    LET today == EndOfDay(currentDate)
        tomorrow == AddDays(today, 1)
    IN  IF c.nextReview < currentDate THEN "overdue"
        ELSE IF c.nextReview <= today THEN "dueToday"
        ELSE IF c.nextReview <= tomorrow THEN "dueTomorrow"
        ELSE "upcoming"

\* mutant: the two day boundaries are exclusive
UrgencyBucketExclusiveEnds(c, currentDate) ==
    LET today == EndOfDay(currentDate)
        tomorrow == AddDays(today, 1)
    IN  IF c.nextReview < currentDate
        THEN IF ToDateString(c.nextReview) # ToDateString(currentDate)
             THEN "overdue" ELSE "dueToday"
        ELSE IF c.nextReview < today THEN "dueToday"
        ELSE IF c.nextReview < tomorrow THEN "dueTomorrow"
        ELSE "upcoming"

\* mutant: a card of any other calendar day is overdue
UrgencyBucketOtherDayIsOverdue(c, currentDate) ==
    LET today == EndOfDay(currentDate)
        tomorrow == AddDays(today, 1)
    IN  IF ToDateString(c.nextReview) # ToDateString(currentDate)
        THEN IF c.nextReview < currentDate \/ c.nextReview > tomorrow
             THEN "overdue" ELSE "dueTomorrow"
        ELSE "dueToday"

\* the branch of getCardsByUrgency's forEach: the array a card is pushed to
UrgencyBucket(c, currentDate) ==
    LET today == EndOfDay(currentDate)
        tomorrow == AddDays(today, 1)
    IN  IF c.nextReview < currentDate
        THEN IF ToDateString(c.nextReview) # ToDateString(currentDate)
             THEN "overdue" ELSE "dueToday"
        ELSE IF c.nextReview <= today THEN "dueToday"
        ELSE IF c.nextReview <= tomorrow THEN "dueTomorrow"
        ELSE "upcoming"

\* mutant: the four arrays are returned as they were filled
getCardsByUrgencyUnsorted(arr, currentDate) ==
    LET pushed(b) == LET in(c) == UrgencyBucket(c, currentDate) = b
                     IN  SelectSeq(arr, in)
    IN  [ input |-> arr,
          value |-> [ overdue     |-> pushed("overdue"),
                      dueToday    |-> pushed("dueToday"),
                      dueTomorrow |-> pushed("dueTomorrow"),
                      upcoming    |-> pushed("upcoming") ] ]

\* getCardsByUrgency(cards, currentDate)
getCardsByUrgency(arr, currentDate) ==
    LET pushed(b) == LET in(c) == UrgencyBucket(c, currentDate) = b
                     IN  SelectSeq(arr, in)
    IN  [ input |-> arr,
          value |-> [ overdue     |-> SortByNextReview(pushed("overdue")),
                      dueToday    |-> SortByNextReview(pushed("dueToday")),
                      dueTomorrow |-> SortByNextReview(pushed("dueTomorrow")),
                      upcoming    |-> SortByNextReview(pushed("upcoming")) ] ]

\* ---------------------------------------------------------------- inputs
Qualities == -1 .. 6
RepetitionsIn == {0, 1, 2, 5}
EaseFactorsIn == {1000, 1300, 1350, 2500, 2504, 2506, 2600}
IntervalsIn == {0, 1, 5, 6, 30}

\* a card as the tests build it: created, then scheduling fields assigned
CardsIn ==
    { [ createFlashCard("Test question", "Test answer", 0) EXCEPT
          !.repetitions = r, !.easeFactor = e, !.interval = i,
          !.lastReviewed = IF r = 0 THEN Null ELSE 0 ] :
      r \in RepetitionsIn, e \in EaseFactorsIn, i \in IntervalsIn }

NoCall == [op |-> "none", card |-> createFlashCard("", "", 0), quality |-> 0,
           reviewDate |-> Null, time |-> 0]
NoRet == [threw |-> FALSE, error |-> "", value |-> << >>]
NoQuery == [op |-> "none", cards |-> << >>, asOf |-> Null, now |-> 0, value |-> << >>]

\* the services, the component and the session before anything used them
NoIo == [op |-> "none"]
NoUi == [studyMode |-> FALSE, isRevealed |-> FALSE, rated |-> << >>]
NoSession == [op |-> "none"]
NoGen == [op |-> "none"]
SvcIdle ==
    /\ storage = << >>
    /\ io = NoIo
    /\ tasks = << >>
    /\ ui = NoUi
    /\ session = NoSession
    /\ gen = NoGen

\* ----------------------------------------------------- the function calls
InitFn ==
    /\ clock = 1
    /\ card \in CardsIn
    /\ call = NoCall
    /\ ret = NoRet
    /\ cards = << >>
    /\ log = << >>
    /\ query = NoQuery
    /\ SvcIdle

\* time passes between calls
Tick ==
    /\ clock < MaxClock
    /\ clock' = clock + 1
    /\ UNCHANGED <<card, call, ret>>
    /\ UNCHANGED deckVars
    /\ UNCHANGED svcVars

\* a caller evaluates calculateNextReview(card, quality)
CalculateNextReview ==
    \E quality \in Qualities :
        LET r == calculateNextReview(card, quality, clock) IN
        /\ call' = [op |-> "calculateNextReview", card |-> card, quality |-> quality,
                    reviewDate |-> Null, time |-> clock]
        /\ ret' = [threw |-> r.threw, error |-> r.error, value |-> r.value]
        /\ card' = r.arg
        /\ UNCHANGED clock
        /\ UNCHANGED deckVars
        /\ UNCHANGED svcVars

\* a caller evaluates updateCardAfterReview(card, quality[, reviewDate]); the
\* clock may advance by e1 before calculateNextReview reads it and by e2 more
\* before updatedAt is taken.  reviewDate Null: the argument is omitted and
\* defaults to `new Date()` at entry.
UpdateCardAfterReview ==
    \E quality \in Qualities, reviewDate \in {Null, 0, clock}, e1 \in 0 .. 1, e2 \in 0 .. 1 :
        LET date == IF reviewDate = Null THEN clock ELSE reviewDate
            r == updateCardAfterReview(card, quality, date, clock + e1, clock + e1 + e2)
        IN
        /\ clock + e1 + e2 <= MaxClock
        /\ call' = [op |-> "updateCardAfterReview", card |-> card, quality |-> quality,
                    reviewDate |-> reviewDate, time |-> clock]
        /\ ret' = [threw |-> r.threw, error |-> r.error, value |-> r.value]
        /\ card' = r.arg
        /\ clock' = clock + e1 + e2
        /\ UNCHANGED deckVars
        /\ UNCHANGED svcVars

NextFn == Tick \/ CalculateNextReview \/ UpdateCardAfterReview

SpecFn == InitFn /\ [][NextFn]_vars

\* ------------------------------------------------ the queries on an array
\* generateId(): the n-th identifier it hands out
CardId(n) == n

\* instants a card of a queried array may be due at: four calendar days
DueTimes == 0 .. (3 * TicksPerDay)

\* reference instants a caller passes: the first two calendar days
AsOfTimes == 0 .. (2 * TicksPerDay - 1)

\* a card of a queried array, as the tests build it: created, then
\* nextReview assigned
DueCard(n, due) ==
    [createFlashCard("Test question", "Test answer", 0) EXCEPT
        !.id = CardId(n), !.nextReview = due]

InitDue ==
    /\ clock = 1
    /\ card = createFlashCard("Test question", "Test answer", 0)
    /\ call = NoCall
    /\ ret = NoRet
    /\ \E n \in 0 .. MaxDeck :
          \E dues \in [1 .. n -> DueTimes] :
              /\ cards = [i \in 1 .. n |-> DueCard(i, dues[i])]
              /\ log = [i \in 1 .. n |-> [created |-> 0, qualities |-> << >>]]
    /\ query = NoQuery
    /\ SvcIdle

\* a caller evaluates getDueCards(cards[, currentDate]); asOf Null: the
\* argument is omitted and defaults to `new Date()`
GetDueCards ==
    \E asOf \in AsOfTimes \cup {Null} :
        LET now == IF asOf = Null THEN clock ELSE asOf
            r == getDueCards(cards, now)
        IN
        /\ query' = [op |-> "getDueCards", cards |-> cards, asOf |-> asOf,
                     now |-> now, value |-> r.value]
        /\ cards' = r.input
        /\ UNCHANGED <<clock, log>>
        /\ UNCHANGED fnVars
        /\ UNCHANGED svcVars

\* a caller evaluates getDueCardsCount(cards[, currentDate])
GetDueCardsCount ==
    \E asOf \in AsOfTimes \cup {Null} :
        LET now == IF asOf = Null THEN clock ELSE asOf
            r == getDueCardsCount(cards, now)
        IN
        /\ query' = [op |-> "getDueCardsCount", cards |-> cards, asOf |-> asOf,
                     now |-> now, value |-> r.value]
        /\ cards' = r.input
        /\ UNCHANGED <<clock, log>>
        /\ UNCHANGED fnVars
        /\ UNCHANGED svcVars

\* a caller evaluates getCardsByUrgency(cards[, currentDate])
GetCardsByUrgency ==
    \E asOf \in AsOfTimes \cup {Null} :
        LET now == IF asOf = Null THEN clock ELSE asOf
            r == getCardsByUrgency(cards, now)
        IN
        /\ query' = [op |-> "getCardsByUrgency", cards |-> cards, asOf |-> asOf,
                     now |-> now, value |-> r.value]
        /\ cards' = r.input
        /\ UNCHANGED <<clock, log>>
        /\ UNCHANGED fnVars
        /\ UNCHANGED svcVars

NextDue == GetDueCards \/ GetDueCardsCount \/ GetCardsByUrgency

SpecDue == InitDue /\ [][NextDue]_vars

\* ------------------------------------------------- the life of the cards
\* the application starts at some instant (here one tick before the last
\* one the clock reaches); no card exists yet
Init ==
    /\ clock = MaxClock - 1
    /\ card = createFlashCard("", "", 0)
    /\ call = NoCall
    /\ ret = NoRet
    /\ cards = << >>
    /\ log = << >>
    /\ query = NoQuery
    /\ SvcIdle

\* createFlashCard(input) and the new card is added to the array
CreateCard ==
    /\ Len(cards) < MaxCards
    /\ cards' = Append(cards,
                  [createFlashCard("Test question", "Test answer", clock) EXCEPT
                      !.id = CardId(Len(cards) + 1)])
    /\ log' = Append(log, [created |-> clock, qualities |-> << >>])
    /\ query' = NoQuery
    /\ UNCHANGED clock
    /\ UNCHANGED fnVars
    /\ UNCHANGED svcVars

\* number of reviews made so far
RECURSIVE ReviewsMade(_)
ReviewsMade(l) ==
    IF l = << >> THEN 0 ELSE Len(l[1].qualities) + ReviewsMade(Tail(l))

\* the study step: cards[i] = updateCardAfterReview(cards[i], quality); a
\* quality out of range throws and nothing is stored
ReviewCard ==
    \E i \in 1 .. Len(cards), quality \in Qualities :
        LET r == updateCardAfterReview(cards[i], quality, clock, clock, clock) IN
        /\ ReviewsMade(log) < MaxReviews
        /\ ~r.threw
        /\ cards' = [cards EXCEPT ![i] = r.value[1]]
        /\ log' = [log EXCEPT ![i].qualities = Append(@, quality)]
        /\ query' = NoQuery
        /\ UNCHANGED clock
        /\ UNCHANGED fnVars
        /\ UNCHANGED svcVars

Next == Tick \/ CreateCard \/ ReviewCard \/ GetDueCards

Spec == Init /\ [][Next]_vars

\* ------------------------------------------------------ the study session
\* createStudySession(), called when the clock reads `now`
createStudySession(now) ==
    [ id                  |-> "session-1",
      startTime           |-> now,
      endTime             |-> Null,
      cardsReviewed       |-> << >>,
      totalCards          |-> 0,
      correctAnswers      |-> 0,
      incorrectAnswers    |-> 0,
      averageResponseTime |-> 0,
      isCompleted         |-> FALSE ]

\* cardsReviewed.reduce((sum, review) => sum + review.responseTime, 0)
RECURSIVE TotalResponseTime(_)
TotalResponseTime(reviews) ==
    IF reviews = << >> THEN 0
    ELSE reviews[1].responseTime + TotalResponseTime(Tail(reviews))

\* mutant: only a quality above 3 counts as correct
updateStudySessionCorrectAbove3(s, cardReview, endTime) ==
    LET reviewed == IF cardReview = << >> THEN s
                    ELSE LET all == Append(s.cardsReviewed, cardReview[1]) IN
                         [ s EXCEPT
                             !.cardsReviewed = all,
                             !.totalCards = Len(all),
                             !.correctAnswers =
                                 IF cardReview[1].quality > 3 THEN @ + 1 ELSE @,
                             !.incorrectAnswers =
                                 IF cardReview[1].quality > 3 THEN @ ELSE @ + 1,
                             !.averageResponseTime =
                                 MathRound(TotalResponseTime(all), Len(all)) ]
        ended == IF endTime = Null THEN reviewed
                 ELSE [reviewed EXCEPT !.endTime = endTime, !.isCompleted = TRUE]
    IN  [arg |-> s, value |-> ended]

\* updateStudySession(session, cardReview, endTime).  cardReview is a
\* sequence: empty when the argument is null or omitted; endTime is Null when
\* omitted.  The outcome is the session object passed in as it is after the
\* call, and the session returned.
updateStudySession(s, cardReview, endTime) ==
    LET reviewed == IF cardReview = << >> THEN s
                    ELSE LET all == Append(s.cardsReviewed, cardReview[1]) IN
                         [ s EXCEPT
                             !.cardsReviewed = all,
                             !.totalCards = Len(all),
                             !.correctAnswers =
                                 IF cardReview[1].quality >= 3 THEN @ + 1 ELSE @,
                             !.incorrectAnswers =
                                 IF cardReview[1].quality >= 3 THEN @ ELSE @ + 1,
                             !.averageResponseTime =
                                 MathRound(TotalResponseTime(all), Len(all)) ]
        ended == IF endTime = Null THEN reviewed
                 ELSE [reviewed EXCEPT !.endTime = endTime, !.isCompleted = TRUE]
    IN  [arg |-> s, value |-> ended]

\* the reviews a study screen records: quality 0..5, a response time in ms
ResponseTimesIn == {1, 2}
CardReviewsIn ==
    { [cardId |-> CardId(1), quality |-> q, responseTime |-> rt, timestamp |-> 1] :
      q \in 0 .. 5, rt \in ResponseTimesIn }

\* a study screen opens: session = createStudySession()
InitSession ==
    /\ clock = 1
    /\ card = createFlashCard("", "", 0)
    /\ call = NoCall
    /\ ret = NoRet
    /\ cards = << >>
    /\ log = << >>
    /\ query = NoQuery
    /\ storage = << >>
    /\ io = NoIo
    /\ tasks = << >>
    /\ ui = NoUi
    /\ gen = NoGen
    /\ session = LET s == createStudySession(clock) IN
                 [ op |-> "createStudySession", held |-> s, passed |-> s,
                   after |-> s, review |-> << >>, endTime |-> Null ]

\* session = updateStudySession(session, cardReview): a card was answered
RecordReview ==
    \E review \in CardReviewsIn :
        LET r == updateStudySession(session.held, <<review>>, Null) IN
        /\ Len(session.held.cardsReviewed) < MaxReviews
        /\ session' = [ op |-> "updateStudySession", held |-> r.value,
                        passed |-> session.held, after |-> r.arg,
                        review |-> <<review>>, endTime |-> Null ]
        /\ UNCHANGED <<clock, storage, io, tasks, ui, gen>>
        /\ UNCHANGED fnVars
        /\ UNCHANGED deckVars

\* session = updateStudySession(session, null, new Date()): the screen closes
CompleteSession ==
    LET r == updateStudySession(session.held, << >>, clock) IN
    /\ session' = [ op |-> "updateStudySession", held |-> r.value,
                    passed |-> session.held, after |-> r.arg,
                    review |-> << >>, endTime |-> clock ]
    /\ UNCHANGED <<clock, storage, io, tasks, ui, gen>>
    /\ UNCHANGED fnVars
    /\ UNCHANGED deckVars

NextSession == RecordReview \/ CompleteSession

SpecSession == InitSession /\ [][NextSession]_vars

\* ------------------------------------------------- the flashcard component
\* mutant: one button per SM-2 quality
ratingButtonsSixPoint ==
    << [label |-> "Blackout", quality |-> 0], [label |-> "Again", quality |-> 1],
       [label |-> "Hard", quality |-> 2],     [label |-> "Okay", quality |-> 3],
       [label |-> "Good", quality |-> 4],     [label |-> "Easy", quality |-> 5] >>

\* the rating buttons of FlashCardComponent
ratingButtons ==
    << [label |-> "Again", quality |-> 1], [label |-> "Hard", quality |-> 2],
       [label |-> "Good", quality |-> 4],  [label |-> "Easy", quality |-> 5] >>

\* the buttons the component renders: inside {isRevealed && (...)}, inside
\* {studyMode && (...)}
RenderedButtons(u) ==
    IF u.isRevealed /\ u.studyMode THEN ratingButtons ELSE << >>

\* handleCardClick: the answer is shown or hidden
handleCardClick(u) == [u EXCEPT !.isRevealed = ~u.isRevealed]

\* handleRating(quality) with an onRate that reviews the card the component
\* shows: onRate(card.id, quality) is recorded with the state it was called
\* in and with whether updateCardAfterReview threw; the answer is hidden
handleRating(u, c, quality, now) ==
    [ u EXCEPT
        !.rated = Append(@, [ quality    |-> quality,
                              isRevealed |-> u.isRevealed,
                              studyMode  |-> u.studyMode,
                              threw      |-> updateCardAfterReview(c, quality, now, now, now).threw ]),
        !.isRevealed = FALSE ]

\* the component is mounted with studyMode set or not; the answer is hidden
InitUi ==
    /\ clock = 1
    /\ card = createFlashCard("Test question", "Test answer", 0)
    /\ call = NoCall
    /\ ret = NoRet
    /\ cards = << >>
    /\ log = << >>
    /\ query = NoQuery
    /\ storage = << >>
    /\ io = NoIo
    /\ tasks = << >>
    /\ session = NoSession
    /\ gen = NoGen
    /\ \E studyMode \in BOOLEAN : ui = [NoUi EXCEPT !.studyMode = studyMode]

\* the user clicks the card
ClickCard ==
    /\ ui' = handleCardClick(ui)
    /\ UNCHANGED <<clock, storage, io, tasks, session, gen>>
    /\ UNCHANGED fnVars
    /\ UNCHANGED deckVars

\* the user clicks one of the rating buttons that are on the screen
ClickRating ==
    \E k \in 1 .. Len(RenderedButtons(ui)) :
        /\ Len(ui.rated) < MaxReviews
        /\ ui' = handleRating(ui, card, RenderedButtons(ui)[k].quality, clock)
        /\ UNCHANGED <<clock, storage, io, tasks, session, gen>>
        /\ UNCHANGED fnVars
        /\ UNCHANGED deckVars

NextUi == ClickCard \/ ClickRating

SpecUi == InitUi /\ [][NextUi]_vars

\* ------------------------------------------------ flashcard-generation.ts
\* A text is the sequence of its sentences (the pieces between [.!?]), and a
\* sentence is described by what the extractors read off it: its length in
\* characters, the number of "X is Y." definitions and of capitalised
\* concepts the patterns find in it, the number of fill-in-the-blank and
\* context questions it yields, and the length of such a question.
defaultOptions ==
    [ maxCards |-> 20, minQuestionLength |-> 10, maxQuestionLength |-> 200,
      includeDefinitions |-> TRUE, includeConcepts |-> TRUE ]

\* array.slice(0, end): a negative end counts from the end of the array
Slice(arr, end) ==
    LET stop == IF end < 0 THEN Max(Len(arr) + end, 0)
                ELSE IF end > Len(arr) THEN Len(arr) ELSE end
    IN  SubSeq(arr, 1, stop)

\* the concatenation of the arrays of an array
RECURSIVE Concat(_)
Concat(seqs) == IF seqs = << >> THEN << >> ELSE seqs[1] \o Concat(Tail(seqs))

\* n copies of x
Repeat(x, n) == [k \in 1 .. n |-> x]

\* extractDefinitions(text): at most 10
extractDefinitions(text) ==
    LET found(sentence) == Repeat("definition", sentence.definitions)
    IN  Slice(Concat([k \in 1 .. Len(text) |-> found(text[k])]), 10)

\* extractKeyConcepts(text): at most 10
extractKeyConcepts(text) ==
    LET found(sentence) == Repeat("concept", sentence.concepts)
    IN  Slice(Concat([k \in 1 .. Len(text) |-> found(text[k])]), 10)

\* extractSentences(text): those of 11 to 299 characters, at most 20
extractSentences(text) ==
    LET kept(sentence) == sentence.length > 10 /\ sentence.length < 300
    IN  Slice(SelectSeq(text, kept), 20)

\* generateQuestionsFromSentences(sentences): a sentence shorter than 20 or
\* longer than 200 characters is skipped; at most 15 pairs, each given here
\* by the length of its question
generateQuestionsFromSentences(sentences) ==
    LET pairs(sentence) ==
            IF sentence.length < 20 \/ sentence.length > 200 THEN << >>
            ELSE Repeat(sentence.questionLength, sentence.questions)
    IN  Slice(Concat([k \in 1 .. Len(sentences) |-> pairs(sentences[k])]), 15)

\* generateFallbackFlashcards(text, options)
generateFallbackFlashcards(text) ==
    LET sentences == extractSentences(text)
        first == IF Len(sentences) > 0 THEN <<"comprehension">> ELSE << >>
        middle == IF Len(sentences) > 2 THEN <<"key-point">> ELSE << >>
    IN  Slice(first \o middle, 3)

\* createFlashCard({question, answer, tags}) for a generated card of a kind
GeneratedCard(kind, now) ==
    [createFlashCard(kind, "generated answer", now) EXCEPT !.tags = <<kind, "generated">>]

\* generateFlashcards(text, options), called when the clock reads `now`;
\* options is a record with any of the fields of defaultOptions
generateFlashcards(text, options, now) ==
    LET opts == [k \in DOMAIN defaultOptions |->
                    IF k \in DOMAIN options THEN options[k] ELSE defaultOptions[k]]
    IN
    IF text = << >>
    THEN [ success |-> FALSE, flashcards |-> << >>, skippedSentences |-> 0,
           error |-> "No content to process" ]
    ELSE
    LET defs == IF opts.includeDefinitions
                THEN Slice(extractDefinitions(text), opts.maxCards \div 2)
                ELSE << >>
        concepts == IF opts.includeConcepts
                    THEN Slice(extractKeyConcepts(text),
                               (opts.maxCards - Len(defs)) \div 2)
                    ELSE << >>
        questionPairs == generateQuestionsFromSentences(extractSentences(text))
        remainingSlots == opts.maxCards - Len(defs) - Len(concepts)
        tried == Slice(questionPairs, remainingSlots)
        fits(len) == len >= opts.minQuestionLength /\ len <= opts.maxQuestionLength
        content == [k \in 1 .. Len(SelectSeq(tried, fits)) |-> "content-based"]
        generated == defs \o concepts \o content
        kinds == IF Len(generated) = 0
                 THEN generateFallbackFlashcards(text)
                 ELSE generated
    IN  [ success |-> TRUE,
          flashcards |-> [k \in 1 .. Len(kinds) |-> GeneratedCard(kinds[k], now)],
          skippedSentences |-> Len(tried) - Len(content),
          error |-> "" ]

\* the sentences of the texts: "ok" (too short for extractSentences), "aaaa
\* bbbb cccc" (a sentence, but too short for a question), a plain sentence
\* of 40 characters, a sentence of 190 characters whose questions exceed
\* maxQuestionLength, and "Machine Learning is a subset of artificial
\* intelligence" (a definition, a concept and two questions)
SentencesIn ==
    { [length |-> 2,   definitions |-> 0, concepts |-> 0, questions |-> 0, questionLength |-> 0],
      [length |-> 14,  definitions |-> 0, concepts |-> 0, questions |-> 2, questionLength |-> 35],
      [length |-> 40,  definitions |-> 0, concepts |-> 0, questions |-> 2, questionLength |-> 60],
      [length |-> 190, definitions |-> 0, concepts |-> 0, questions |-> 2, questionLength |-> 210],
      [length |-> 55,  definitions |-> 1, concepts |-> 1, questions |-> 2, questionLength |-> 75] }

\* the maxCards options a caller passes
MaxCardsIn == 0 .. 4

\* a text has been extracted from an uploaded file
InitGen ==
    /\ clock = 1
    /\ card = createFlashCard("", "", 0)
    /\ call = NoCall
    /\ ret = NoRet
    /\ cards = << >>
    /\ log = << >>
    /\ query = NoQuery
    /\ storage = << >>
    /\ io = NoIo
    /\ tasks = << >>
    /\ ui = NoUi
    /\ session = NoSession
    /\ \E n \in 0 .. MaxSentences :
          \E text \in [1 .. n -> SentencesIn] :
              gen = [op |-> "none", text |-> text]

\* a caller evaluates generateFlashcards(text, {maxCards}) or, with
\* defaults, generateFlashcards(text)
GenerateFlashcards ==
    \E options \in {[maxCards |-> m] : m \in MaxCardsIn} \cup {<< >>} :
        LET opts == IF options = << >> THEN defaultOptions ELSE options IN
        /\ gen' = [ op |-> "generateFlashcards", text |-> gen.text,
                    maxCards |-> opts.maxCards,
                    result |-> generateFlashcards(gen.text, opts, clock) ]
        /\ UNCHANGED <<clock, storage, io, tasks, ui, session>>
        /\ UNCHANGED fnVars
        /\ UNCHANGED deckVars

NextGen == GenerateFlashcards

SpecGen == InitGen /\ [][NextGen]_vars

\* ------------------------------------------------------------- storage.ts
FLASHCARD_PREFIX == "flashcard_"
CONTENT_PREFIX == "content_"
STUDY_SESSION_PREFIX == "study_session_"

\* `${prefix}${id}`: a key is kept as its two parts; key.startsWith(prefix)
\* and key.substring(prefix.length) read them back
getFlashCardKey(id) == [prefix |-> FLASHCARD_PREFIX, id |-> id]
getContentKey(id) == [prefix |-> CONTENT_PREFIX, id |-> id]
getStudySessionKey(id) == [prefix |-> STUDY_SESSION_PREFIX, id |-> id]
StartsWith(key, prefix) == key.prefix = prefix
extractIdFromKey(key, prefix) == key.id

\* localStorage.getItem(key): a sequence, empty for null
getItem(store, key) ==
    LET at(e) == e.key = key
        found == SelectSeq(store, at)
    IN  IF found = << >> THEN << >> ELSE <<found[1].value>>

\* localStorage.setItem(key, value): an existing key keeps its place
setItem(store, key, value) ==
    IF \E i \in 1 .. Len(store) : store[i].key = key
    THEN [i \in 1 .. Len(store) |->
             IF store[i].key = key THEN [key |-> key, value |-> value] ELSE store[i]]
    ELSE Append(store, [key |-> key, value |-> value])

\* localStorage.removeItem(key)
removeItem(store, key) ==
    LET other(e) == e.key # key IN SelectSeq(store, other)

\* date.toISOString(): the calendar day and the time of day, in UTC, to the
\* millisecond (here: to the tick)
toISOString(date) ==
    [iso |-> "YYYY-MM-DDTHH:mm:ss.sssZ", day |-> date \div TicksPerDay,
     time |-> date % TicksPerDay]

\* new Date(isoString)
NewDate(str) == str.day * TicksPerDay + str.time

\* null inside a serialized object
JsonNull == [iso |-> "null"]

\* JSON.stringify(value) of an object of strings, finite numbers, nulls and
\* arrays: a text that JSON.parse reads back to an equal object
JSONstringify(value) == [parses |-> TRUE, data |-> value]

\* a text that JSON.parse rejects
NotJson == [parses |-> FALSE, data |-> << >>]

\* string.trim() on the question, answer and title strings used below
trim(str) ==
    IF str \in {"", " ", " \t\n "} THEN ""
    ELSE IF str = "  What is React?  " THEN "What is React?"
    ELSE str

\* validateFlashCard(card)
validateFlashCard(c) ==
    IF trim(c.question) = "" \/ trim(c.answer) = "" THEN FALSE
    ELSE IF c.easeFactor < 1300 THEN FALSE
    ELSE IF c.repetitions < 0 THEN FALSE
    ELSE IF c.interval < 0 THEN FALSE
    ELSE TRUE

\* mutant: lastReviewed is written as a date string even when it is null
serializeCardNoNull(c) ==
    [ c EXCEPT
        !.lastReviewed = toISOString(IF c.lastReviewed = Null THEN 0 ELSE c.lastReviewed),
        !.nextReview   = toISOString(c.nextReview),
        !.createdAt    = toISOString(c.createdAt),
        !.updatedAt    = toISOString(c.updatedAt) ]

\* serializeCard(card)
serializeCard(c) ==
    [ c EXCEPT
        !.lastReviewed = IF c.lastReviewed = Null THEN JsonNull
                         ELSE toISOString(c.lastReviewed),
        !.nextReview   = toISOString(c.nextReview),
        !.createdAt    = toISOString(c.createdAt),
        !.updatedAt    = toISOString(c.updatedAt) ]

\* deserializeCard(data)
deserializeCard(data) ==
    [ data EXCEPT
        !.lastReviewed = IF data.lastReviewed = JsonNull THEN Null
                         ELSE NewDate(data.lastReviewed),
        !.nextReview   = NewDate(data.nextReview),
        !.createdAt    = NewDate(data.createdAt),
        !.updatedAt    = NewDate(data.updatedAt) ]

\* mutant: the card is written before it is validated
saveFlashCardWritesFirst(store, c) ==
    IF ~validateFlashCard(c)
    THEN [ threw |-> TRUE, error |-> "Invalid flashcard data",
           storage |-> setItem(store, getFlashCardKey(c.id),
                               JSONstringify(serializeCard(c))) ]
    ELSE [ threw |-> FALSE, error |-> "",
           storage |-> setItem(store, getFlashCardKey(c.id),
                               JSONstringify(serializeCard(c))) ]

\* saveFlashCard(card): the rejection (if any) and localStorage afterwards
saveFlashCard(store, c) ==
    IF ~validateFlashCard(c)
    THEN [threw |-> TRUE, error |-> "Invalid flashcard data", storage |-> store]
    ELSE [ threw |-> FALSE, error |-> "",
           storage |-> setItem(store, getFlashCardKey(c.id),
                               JSONstringify(serializeCard(c))) ]

\* getFlashCard(id): a sequence, empty for null (no such key, or a value
\* that does not parse)
getFlashCard(store, id) ==
    LET serialized == getItem(store, getFlashCardKey(id)) IN
    IF serialized = << >> THEN << >>
    ELSE IF ~serialized[1].parses THEN << >>
    ELSE <<deserializeCard(serialized[1].data)>>

\* createContent({title, type: ContentType.NOTE}), called at `now`
createContent(title, type, now) ==
    [ id |-> CardId(1), title |-> title, type |-> type, filePath |-> Null,
      youtubeUrl |-> Null, tags |-> << >>, associatedCardIds |-> << >>,
      createdAt |-> now, updatedAt |-> now ]

\* validateContent(content); no video is stored here, so isValidYouTubeUrl
\* is met only with youtubeUrl null
validateContent(c) ==
    IF trim(c.title) = "" THEN FALSE
    ELSE IF c.type = "document" THEN c.filePath # Null
    ELSE IF c.type = "video" THEN FALSE
    ELSE IF c.type = "note" THEN TRUE
    ELSE FALSE

serializeContent(c) ==
    [c EXCEPT !.createdAt = toISOString(c.createdAt),
              !.updatedAt = toISOString(c.updatedAt)]

deserializeContent(data) ==
    [data EXCEPT !.createdAt = NewDate(data.createdAt),
                 !.updatedAt = NewDate(data.updatedAt)]

\* saveContent(content)
saveContent(store, c) ==
    IF ~validateContent(c)
    THEN [threw |-> TRUE, error |-> "Invalid content data", storage |-> store]
    ELSE [ threw |-> FALSE, error |-> "",
           storage |-> setItem(store, getContentKey(c.id),
                               JSONstringify(serializeContent(c))) ]

\* getContent(id)
getContent(store, id) ==
    LET serialized == getItem(store, getContentKey(id)) IN
    IF serialized = << >> THEN << >>
    ELSE IF ~serialized[1].parses THEN << >>
    ELSE <<deserializeContent(serialized[1].data)>>

serializeStudySession(s) ==
    [ s EXCEPT
        !.startTime = toISOString(s.startTime),
        !.endTime = IF s.endTime = Null THEN JsonNull ELSE toISOString(s.endTime),
        !.cardsReviewed =
            [k \in 1 .. Len(s.cardsReviewed) |->
                [s.cardsReviewed[k] EXCEPT !.timestamp = toISOString(@)]] ]

deserializeStudySession(data) ==
    [ data EXCEPT
        !.startTime = NewDate(data.startTime),
        !.endTime = IF data.endTime = JsonNull THEN Null ELSE NewDate(data.endTime),
        !.cardsReviewed =
            [k \in 1 .. Len(data.cardsReviewed) |->
                [data.cardsReviewed[k] EXCEPT !.timestamp = NewDate(@)]] ]

\* saveStudySession(session): no validation
saveStudySession(store, s) ==
    [ threw |-> FALSE, error |-> "",
      storage |-> setItem(store, getStudySessionKey(s.id),
                          JSONstringify(serializeStudySession(s))) ]

\* getStudySession(id)
getStudySession(store, id) ==
    LET serialized == getItem(store, getStudySessionKey(id)) IN
    IF serialized = << >> THEN << >>
    ELSE IF ~serialized[1].parses THEN << >>
    ELSE <<deserializeStudySession(serialized[1].data)>>

\* items.sort((a, b) => b[field] - a[field]): stable, latest first
RECURSIVE SortLatestFirst(_, _)
SortLatestFirst(items, field) ==
    IF items = << >> THEN << >>
    ELSE LET rest == SortLatestFirst(SubSeq(items, 1, Len(items) - 1), field)
             x == items[Len(items)]
             ahead(y) == y[field] >= x[field]
             behind(y) == y[field] < x[field]
         IN  SelectSeq(rest, ahead) \o <<x>> \o SelectSeq(rest, behind)

\* the loop of getAllFlashCards / getAllContent / getAllStudySessions: for
\* each key(i) with the prefix, the item get(id) returns, unless it is null
ItemsWithPrefix(store, prefix) ==
    LET get(id) == IF prefix = FLASHCARD_PREFIX THEN getFlashCard(store, id)
                   ELSE IF prefix = CONTENT_PREFIX THEN getContent(store, id)
                   ELSE getStudySession(store, id)
    IN  Concat([i \in 1 .. Len(store) |->
                   IF StartsWith(store[i].key, prefix)
                   THEN get(extractIdFromKey(store[i].key, prefix))
                   ELSE << >>])

getAllFlashCards(store) ==
    SortLatestFirst(ItemsWithPrefix(store, FLASHCARD_PREFIX), "createdAt")

getAllContent(store) ==
    SortLatestFirst(ItemsWithPrefix(store, CONTENT_PREFIX), "createdAt")

getAllStudySessions(store) ==
    SortLatestFirst(ItemsWithPrefix(store, STUDY_SESSION_PREFIX),
                    "startTime")

\* the prefixes of the keys the service owns
OwnKey(key) ==
    \/ StartsWith(key, FLASHCARD_PREFIX)
    \/ StartsWith(key, CONTENT_PREFIX)
    \/ StartsWith(key, STUDY_SESSION_PREFIX)

\* keysToRemove.forEach(key => localStorage.removeItem(key))
RECURSIVE RemoveKeys(_, _)
RemoveKeys(store, keys) ==
    IF keys = << >> THEN store
    ELSE RemoveKeys(removeItem(store, keys[1]), Tail(keys))

\* one loop that removes key(i) as it meets it: the next key moves to index i
RECURSIVE RemoveWhileIterating(_, _)
RemoveWhileIterating(store, i) ==
    IF i > Len(store) THEN store
    ELSE IF OwnKey(store[i].key)
         THEN RemoveWhileIterating(removeItem(store, store[i].key), i + 1)
         ELSE RemoveWhileIterating(store, i + 1)

\* mutant: the keys are removed inside the loop over key(i)
clearAllDataInOneLoop(store) == RemoveWhileIterating(store, 1)

\* clearAllData(): the keys are collected first, then removed
clearAllData(store) ==
    LET own(e) == OwnKey(e.key)
        keysToRemove == [k \in 1 .. Len(SelectSeq(store, own)) |->
                            SelectSeq(store, own)[k].key]
    IN  RemoveKeys(store, keysToRemove)

\* the saves importData starts, one after the other; a rejected one does
\* not stop the ones after it
RECURSIVE SaveEach(_, _, _)
SaveEach(acc, items, prefix) ==
    IF items = << >> THEN acc
    ELSE LET r == IF prefix = FLASHCARD_PREFIX THEN saveFlashCard(acc.storage, items[1])
                  ELSE IF prefix = CONTENT_PREFIX THEN saveContent(acc.storage, items[1])
                  ELSE saveStudySession(acc.storage, items[1])
         IN  SaveEach([ threw |-> acc.threw \/ r.threw,
                        error |-> IF acc.threw THEN acc.error ELSE r.error,
                        storage |-> r.storage ],
                      Tail(items), prefix)

\* importData(data): rejected when one of the saves is (Promise.all)
importData(store, data) ==
    LET cleared == [threw |-> FALSE, error |-> "", storage |-> clearAllData(store)]
        withCards == SaveEach(cleared, data.flashCards, FLASHCARD_PREFIX)
        withContent == SaveEach(withCards, data.content, CONTENT_PREFIX)
    IN  SaveEach(withContent, data.studySessions, STUDY_SESSION_PREFIX)

\* ----------------------------------------------- the calls on the storage
\* a card as createFlashCard made it at instant 1, and cards made at the
\* epoch and reviewed there: two or five successes, at the minimum or the
\* default ease
NewCardIn(id) ==
    [createFlashCard("What is React?", "A JavaScript library", 1) EXCEPT !.id = id]
ReviewedCardIn(id, repetitions, easeFactor) ==
    [ createFlashCard("  What is React?  ", "A JavaScript library", 0) EXCEPT
        !.id = id, !.repetitions = repetitions, !.easeFactor = easeFactor,
        !.interval = IF repetitions = 2 THEN 6 ELSE 30,
        !.lastReviewed = 0,
        !.nextReview = AddDays(0, IF repetitions = 2 THEN 6 ELSE 30) ]
SeasonedCardIn(id) == ReviewedCardIn(id, 2, SM2_MIN_EASE_FACTOR)
ValidCardsIn(id) ==
    {NewCardIn(id)} \cup
    {ReviewedCardIn(id, r, e) : r \in {2, 5}, e \in {SM2_MIN_EASE_FACTOR, DEFAULT_EASE_FACTOR}}

\* cards the validation has to turn down, one defect each
InvalidCardsIn(id) ==
    { [NewCardIn(id) EXCEPT !.question = ""],
      [NewCardIn(id) EXCEPT !.question = " "],
      [NewCardIn(id) EXCEPT !.answer = " \t\n "],
      [SeasonedCardIn(id) EXCEPT !.easeFactor = 1299],
      [NewCardIn(id) EXCEPT !.repetitions = -1],
      [SeasonedCardIn(id) EXCEPT !.interval = -1] }

\* the key the Save / Get / Review calls work on
StoredIds == {1}

\* a note, and a session with one review, as they are exported
NoteIn(id) == [createContent("Content", "note", 1) EXCEPT !.id = id]
SessionIn(id) ==
    [ updateStudySession(createStudySession(0),
                         <<[cardId |-> CardId(1), quality |-> 4,
                            responseTime |-> 2, timestamp |-> 1]>>,
                         Null).value EXCEPT !.id = id ]

\* what localStorage holds when the page loads: nothing; another script's
\* entry; or that entry, a flashcard entry that is not JSON, a note and a
\* session of an earlier visit
ForeignEntry == [key |-> [prefix |-> "theme", id |-> 0], value |-> NotJson]
PriorStorages ==
    { << >>,
      <<ForeignEntry>>,
      saveStudySession(
          saveContent(<<[key |-> getFlashCardKey(9), value |-> NotJson], ForeignEntry>>,
                      NoteIn(7)).storage,
          SessionIn(8)).storage }

\* the ExportData objects passed to importData: empty; one item of each
\* kind; two cards, one under a key in use; a card that is not valid
ExportsIn ==
    { [ flashCards |-> << >>, content |-> << >>, studySessions |-> << >>,
        exportDate |-> 1, version |-> "1.0" ],
      [ flashCards |-> <<NewCardIn(2)>>, content |-> <<NoteIn(4)>>,
        studySessions |-> <<SessionIn(5)>>, exportDate |-> 1, version |-> "1.0" ],
      [ flashCards |-> <<SeasonedCardIn(1), NewCardIn(2)>>, content |-> << >>,
        studySessions |-> << >>, exportDate |-> 1, version |-> "1.0" ],
      [ flashCards |-> <<[NewCardIn(2) EXCEPT !.question = ""], NewCardIn(3)>>,
        content |-> << >>, studySessions |-> << >>,
        exportDate |-> 1, version |-> "1.0" ] }

InitStore ==
    /\ clock = 1
    /\ card = createFlashCard("", "", 0)
    /\ call = NoCall
    /\ ret = NoRet
    /\ cards = << >>
    /\ log = << >>
    /\ query = NoQuery
    /\ tasks = << >>
    /\ ui = NoUi
    /\ session = NoSession
    /\ gen = NoGen
    /\ storage \in PriorStorages
    /\ io = NoIo

\* await storageService.saveFlashCard(card)
SaveFlashCard ==
    \E id \in StoredIds :
        \E c \in ValidCardsIn(id) \cup InvalidCardsIn(id) :
            LET r == saveFlashCard(storage, c) IN
            /\ io' = [ op |-> "saveFlashCard", arg |-> c, before |-> storage,
                       threw |-> r.threw, error |-> r.error, value |-> << >> ]
            /\ storage' = r.storage
            /\ UNCHANGED <<clock, tasks, ui, session, gen>>
            /\ UNCHANGED fnVars
            /\ UNCHANGED deckVars

\* await storageService.getFlashCard(id)
GetFlashCard ==
    \E id \in StoredIds \cup {9} :
        /\ io' = [ op |-> "getFlashCard", arg |-> id, before |-> storage,
                   threw |-> FALSE, error |-> "",
                   value |-> getFlashCard(storage, id) ]
        /\ UNCHANGED <<clock, storage, tasks, ui, session, gen>>
        /\ UNCHANGED fnVars
        /\ UNCHANGED deckVars

\* the study step on a stored card: getFlashCard(id), updateCardAfterReview
\* with a quality 0..5, saveFlashCard of the result; a card is reviewed
\* once per instant
ReviewStoredCard ==
    \E id \in StoredIds, quality \in 0 .. 5 :
        LET fetched == getFlashCard(storage, id) IN
        /\ fetched # << >>
        /\ fetched[1].lastReviewed # clock
        /\ LET reviewed == updateCardAfterReview(fetched[1], quality, clock, clock, clock)
               r == saveFlashCard(storage, reviewed.value[1])
           IN
           /\ io' = [ op |-> "reviewStoredCard", arg |-> fetched[1],
                      quality |-> quality, before |-> storage,
                      threw |-> r.threw, error |-> r.error,
                      value |-> reviewed.value ]
           /\ storage' = r.storage
        /\ UNCHANGED <<clock, tasks, ui, session, gen>>
        /\ UNCHANGED fnVars
        /\ UNCHANGED deckVars

\* await storageService.importData(data)
ImportData ==
    \E data \in ExportsIn :
        LET r == importData(storage, data) IN
        /\ io' = [ op |-> "importData", arg |-> data, before |-> storage,
                   threw |-> r.threw, error |-> r.error, value |-> << >> ]
        /\ storage' = r.storage
        /\ UNCHANGED <<clock, tasks, ui, session, gen>>
        /\ UNCHANGED fnVars
        /\ UNCHANGED deckVars

NextStore == SaveFlashCard \/ GetFlashCard \/ ReviewStoredCard \/ ImportData

SpecStore == InitStore /\ [][NextStore]_vars

\* ------------------------------------------------- reviews run as tasks
\* MaxTasks asynchronous tasks review the cards of one in-memory array, task
\* t the card cards[t].  Between two awaits a task runs alone (the calls of
\* spaced-repetition.ts are synchronous); the tasks interleave at the awaits:
\* after the card was fetched and after updateCardAfterReview returned.  The
\* object a task holds is the array's own element, so what the call does to
\* its argument shows in the array.
TaskQualitiesIn == {2, 4}

InitTasks ==
    /\ clock = 1
    /\ card = createFlashCard("", "", 0)
    /\ call = NoCall
    /\ ret = NoRet
    /\ cards = [t \in 1 .. MaxTasks |-> DueCard(t, 0)]
    /\ log = [t \in 1 .. MaxTasks |-> [created |-> 0, qualities |-> << >>]]
    /\ query = NoQuery
    /\ storage = << >>
    /\ io = NoIo
    /\ ui = NoUi
    /\ session = NoSession
    /\ gen = NoGen
    /\ tasks = [t \in 1 .. MaxTasks |->
                  [ pc |-> "start", original |-> cards[t], quality |-> 0,
                    time |-> 0, result |-> << >>, overlapped |-> FALSE ]]

\* const card = await fetch(t)
TaskFetch ==
    \E t \in 1 .. Len(tasks) :
        /\ tasks[t].pc = "start"
        /\ tasks' = [tasks EXCEPT ![t].pc = "fetched"]
        /\ UNCHANGED <<clock, storage, io, ui, session, gen>>
        /\ UNCHANGED fnVars
        /\ UNCHANGED deckVars

\* const updated = updateCardAfterReview(card, quality)
TaskReview ==
    \E t \in 1 .. Len(tasks), quality \in TaskQualitiesIn :
        LET r == updateCardAfterReview(cards[t], quality, clock, clock, clock) IN
        /\ tasks[t].pc = "fetched"
        /\ tasks' = [tasks EXCEPT ![t].pc = "reviewed", ![t].quality = quality,
                                  ![t].time = clock, ![t].result = r.value]
        /\ cards' = [cards EXCEPT ![t] = r.arg]
        /\ UNCHANGED <<clock, log, query, storage, io, ui, session, gen>>
        /\ UNCHANGED fnVars

\* await write(t, updated)
TaskWrite ==
    \E t \in 1 .. Len(tasks) :
        /\ tasks[t].pc = "reviewed"
        /\ cards' = [cards EXCEPT ![t] = tasks[t].result[1]]
        /\ log' = [log EXCEPT ![t].qualities = Append(@, tasks[t].quality)]
        /\ tasks' = [tasks EXCEPT
                        ![t].pc = "done",
                        ![t].overlapped =
                            \E u \in 1 .. Len(tasks) :
                                u # t /\ tasks[u].pc \in {"fetched", "reviewed"}]
        /\ UNCHANGED <<clock, query, storage, io, ui, session, gen>>
        /\ UNCHANGED fnVars

NextTasks == Tick \/ TaskFetch \/ TaskReview \/ TaskWrite

SpecTasks == InitTasks /\ [][NextTasks]_vars

\* ================================================================ claims
\* the last call returned a value / what it returned / what it was given
Returned == call.op # "none" /\ ~ret.threw /\ ret.value # << >>
Result == ret.value[1]
Prior == call.card

\* the ease-factor change per quality 0..5 as the specification tabulates it
DeltaTable == <<-800, -540, -320, -140, 0, 100>>

\* x = num/den rounds (half up) to the integer n:  n - 1/2 <= x < n + 1/2
RoundsHalfUpTo(num, den, n) ==
    /\ 2 * den * n - den <= 2 * num
    /\ 2 * num < 2 * den * n + den

\* C1: every value calculateNextReview / updateCardAfterReview returns has
\* easeFactor >= 1.3, whatever the input state and the quality in 0..5.
C1_EaseFactorFloor ==
    Returned => Result.easeFactor >= SM2_MIN_EASE_FACTOR

\* C1 witness: a review whose raw ease factor falls below 1.3 returned 1.3
C1_Witness ==
    /\ Returned
    /\ Prior.easeFactor + DeltaTable[call.quality + 1] < SM2_MIN_EASE_FACTOR
    /\ Result.easeFactor = SM2_MIN_EASE_FACTOR

\* C2: a quality below 0 or above 5 raises 'Quality must be between 0 and 5',
\* returns no value and leaves the card that was passed in unchanged.
C2_InvalidQualityFails ==
    (call.op # "none" /\ (call.quality < 0 \/ call.quality > 5)) =>
        /\ ret.threw
        /\ ret.error = "Quality must be between 0 and 5"
        /\ ret.value = << >>
        /\ card = call.card

\* C2 witness: updateCardAfterReview was called with quality 6 and threw
C2_Witness ==
    /\ call.op = "updateCardAfterReview"
    /\ call.quality = 6
    /\ ret.threw

\* C3: for quality 0, 1 or 2 the result has repetitions 0 and interval 1,
\* whatever the prior repetitions, interval and ease factor.
C3_FailedRecallResets ==
    (Returned /\ call.quality \in 0 .. 2) =>
        /\ Result.repetitions = 0
        /\ Result.interval = 1

\* C3 witness: a card with 5 repetitions and interval 30 failed a review
C3_Witness ==
    /\ Returned
    /\ call.quality = 2
    /\ Prior.repetitions = 5
    /\ Prior.interval = 30
    /\ Result.repetitions = 0

\* C4: for quality 3, 4 or 5, prior repetitions 0 give repetitions 1 and
\* interval 1, and prior repetitions 1 give repetitions 2 and interval 6.
C4_FirstTwoIntervals ==
    (Returned /\ call.quality \in 3 .. 5) =>
        /\ Prior.repetitions = 0 => (Result.repetitions = 1 /\ Result.interval = 1)
        /\ Prior.repetitions = 1 => (Result.repetitions = 2 /\ Result.interval = 6)

\* C4 witness: a second successful review of a card whose prior interval
\* and ease factor are not the defaults
C4_Witness ==
    /\ Returned
    /\ call.quality = 3
    /\ Prior.repetitions = 1
    /\ Prior.interval = 30
    /\ Prior.easeFactor = 1350
    /\ Result.interval = 6

\* C5: for quality >= 3 and prior repetitions >= 2 the result has repetitions
\* = prior + 1 and interval = prior interval * new ease factor (the clamped
\* ease factor of this review), rounded to the nearest integer, halves up.
C5_LaterIntervals ==
    (Returned /\ call.quality \in 3 .. 5 /\ Prior.repetitions >= 2) =>
        /\ Result.repetitions = Prior.repetitions + 1
        /\ RoundsHalfUpTo(
               Prior.interval * Max(1300, Prior.easeFactor + DeltaTable[call.quality + 1]),
               1000, Result.interval)

\* C5 witness: the new ease factor (1.35 + 0.1 = 1.45) differs from the old
\* one and the product falls on a half (30 * 1.45 = 43.5); the interval is 44
C5_Witness ==
    /\ Returned
    /\ call.quality = 5
    /\ Prior.repetitions = 2
    /\ Prior.interval = 30
    /\ Prior.easeFactor = 1350
    /\ Result.repetitions = 3
    /\ Result.interval = 44

\* C6: for every quality 0..5 (failed recalls included) the returned ease
\* factor is max(1.3, easeFactor + delta(q)) rounded to 2 decimals, with delta
\* = +0.10, 0, -0.14, -0.32, -0.54, -0.80 for q = 5..0; so on a card with a
\* 2-decimal ease factor >= 1.3 only quality 5 raises it and 4 keeps it.
C6_EaseFactorUpdate ==
    (Returned /\ call.quality \in 0 .. 5) =>
        LET raw == Max(1300, Prior.easeFactor + DeltaTable[call.quality + 1]) IN
        /\ Result.easeFactor % 10 = 0
        /\ RoundsHalfUpTo(raw, 10, Result.easeFactor \div 10)
        /\ (Prior.easeFactor >= 1300 /\ Prior.easeFactor % 10 = 0) =>
              /\ call.quality = 5 => Result.easeFactor > Prior.easeFactor
              /\ call.quality = 4 => Result.easeFactor = Prior.easeFactor
              /\ call.quality < 4 => Result.easeFactor <= Prior.easeFactor

\* C6 witness: a failed recall (quality 1) lowered 2.6 to 2.06
C6_Witness ==
    /\ Returned
    /\ call.quality = 1
    /\ Prior.easeFactor = 2600
    /\ Result.easeFactor = 2060
    /\ Result.repetitions = 0

\* C7: every card updateCardAfterReview returns has nextReview = lastReviewed
\* + interval days, for every review date the caller supplies.
C7_NextReviewFromLastReviewed ==
    (Returned /\ call.op = "updateCardAfterReview") =>
        Result.nextReview = AddDays(Result.lastReviewed, Result.interval)

\* C8: the result is a function of the explicit inputs alone: a call made
\* with the same card state, quality and explicitly supplied date as the call
\* before it returns the same repetitions, easeFactor, interval and
\* nextReview, and nextReview = supplied date + new interval days.
C8_PureInExplicitInputs ==
    [][ ( /\ call'.op = "updateCardAfterReview"
          /\ call.op = "updateCardAfterReview"
          /\ call'.reviewDate # Null
          /\ call'.reviewDate = call.reviewDate
          /\ call'.card = call.card
          /\ call'.quality = call.quality
          /\ ~ret.threw
          /\ ~ret'.threw )
        => ( /\ ret'.value[1].repetitions = ret.value[1].repetitions
             /\ ret'.value[1].easeFactor = ret.value[1].easeFactor
             /\ ret'.value[1].interval = ret.value[1].interval
             /\ ret'.value[1].nextReview = ret.value[1].nextReview
             /\ ret'.value[1].nextReview =
                    AddDays(call'.reviewDate, ret'.value[1].interval) ) ]_vars

\* C9: after any call, failing or not, the card that was passed in equals
\* the snapshot taken before the call.
C9_InputNotMutated ==
    call.op # "none" => card = call.card

\* C9 witness: updateCardAfterReview returned a card that differs from its
\* argument in the scheduling fields, and the argument is as it was
C9_Witness ==
    /\ Returned
    /\ call.op = "updateCardAfterReview"
    /\ Result.repetitions # Prior.repetitions
    /\ Result.easeFactor # Prior.easeFactor
    /\ Result.interval # Prior.interval
    /\ card = Prior

\* C10: updateCardAfterReview returns a card whose repetitions, easeFactor,
\* interval and nextReview are those calculateNextReview computes for the
\* same card and quality (at some instant of the call), whose lastReviewed is
\* the review date (the supplied one, or the time of the call when omitted),
\* whose updatedAt is not before the call, and whose other fields are the
\* input card's.
C10_UpdatedCard ==
    (Returned /\ call.op = "updateCardAfterReview") =>
        /\ \E t \in call.time .. clock :
              LET r == calculateNextReview(Prior, call.quality, t).value[1] IN
              /\ Result.repetitions = r.repetitions
              /\ Result.easeFactor = r.easeFactor
              /\ Result.interval = r.interval
              /\ Result.nextReview = r.nextReview
        /\ Result.lastReviewed =
              (IF call.reviewDate = Null THEN call.time ELSE call.reviewDate)
        /\ Result.updatedAt >= call.time
        /\ Result.id = Prior.id
        /\ Result.question = Prior.question
        /\ Result.answer = Prior.answer
        /\ Result.tags = Prior.tags
        /\ Result.contentSourceId = Prior.contentSourceId
        /\ Result.contentTimestamp = Prior.contentTimestamp
        /\ Result.createdAt = Prior.createdAt

\* C10 witness: a review with a supplied, backdated review date, made after
\* the card's last update
C10_Witness ==
    /\ Returned
    /\ call.op = "updateCardAfterReview"
    /\ call.reviewDate = 0
    /\ call.time > Prior.updatedAt
    /\ Result.lastReviewed = 0
    /\ Result.updatedAt > Prior.updatedAt

\* the number of reviews at the end of the sequence qs that all have
\* quality >= 3
RECURSIVE SuccessSuffix(_)
SuccessSuffix(qs) ==
    IF qs = << >> \/ qs[Len(qs)] < 3 THEN 0
    ELSE 1 + SuccessSuffix(SubSeq(qs, 1, Len(qs) - 1))

\* C11: after any sequence of valid reviews of a newly created card, its
\* repetitions is the length of the longest suffix of the sequence whose
\* qualities are all >= 3 (0 after a failure or without a review).
C11_RepetitionsCountSuccessSuffix ==
    \A i \in 1 .. Len(cards) :
        cards[i].repetitions = SuccessSuffix(log[i].qualities)

\* C11 witness: a success, a failure, then a success: repetitions is 1
C11_Witness ==
    \E i \in 1 .. Len(cards) :
        /\ Len(log[i].qualities) = 3
        /\ log[i].qualities[1] >= 3
        /\ log[i].qualities[2] < 3
        /\ log[i].qualities[3] >= 3
        /\ cards[i].repetitions = 1

\* helpers of the claims on the queries
InSeq(seq, c) == \E k \in 1 .. Len(seq) : seq[k] = c
Occurrences(seq, c) == Cardinality({k \in 1 .. Len(seq) : seq[k] = c})
Pos(seq, c) == CHOOSE k \in 1 .. Len(seq) : seq[k] = c
SortedByNextReview(seq) ==
    \A k \in 1 .. Len(seq) - 1 : seq[k].nextReview <= seq[k + 1].nextReview

\* C12: getDueCards(cards, asOf) returns exactly the cards with nextReview
\* <= asOf: each of them once (one due exactly at asOf included), no other.
C12_DueCardsExact ==
    query.op = "getDueCards" =>
        /\ \A i \in 1 .. Len(query.cards) :
              Occurrences(query.value, query.cards[i]) =
                  (IF query.cards[i].nextReview <= query.now THEN 1 ELSE 0)
        /\ \A k \in 1 .. Len(query.value) : InSeq(query.cards, query.value[k])

\* C12 witness: cards due before, exactly at and after asOf; two are returned
C12_Witness ==
    /\ query.op = "getDueCards"
    /\ \E i, j, k \in 1 .. Len(query.cards) :
          /\ query.cards[i].nextReview < query.now
          /\ query.cards[j].nextReview = query.now
          /\ query.cards[k].nextReview > query.now
    /\ Len(query.value) = 2

\* C13: getDueCardsCount(cards, t) is the length of getDueCards(cards, t).
C13_CountMatchesDueCards ==
    query.op = "getDueCardsCount" =>
        query.value = Len(getDueCards(query.cards, query.now).value)

\* C13 witness: a count of 2 on three cards, one of them due exactly at t
C13_Witness ==
    /\ query.op = "getDueCardsCount"
    /\ Len(query.cards) = 3
    /\ query.value = 2
    /\ \E i \in 1 .. 3 : query.cards[i].nextReview = query.now

\* C14: the array getDueCards returns is sorted non-decreasing by nextReview.
C14_DueCardsSorted ==
    query.op = "getDueCards" => SortedByNextReview(query.value)

\* C14 witness: two due cards that are in descending order in the input
C14_Witness ==
    /\ query.op = "getDueCards"
    /\ Len(query.value) >= 2
    /\ \E i, j \in 1 .. Len(query.cards) :
          /\ i < j
          /\ query.cards[j].nextReview < query.cards[i].nextReview
          /\ query.cards[i].nextReview <= query.now

\* C15: two due cards with equal nextReview are returned in the relative
\* order they have in the input.
C15_DueCardsStable ==
    query.op = "getDueCards" =>
        \A i, j \in 1 .. Len(query.cards) :
            ( /\ i < j
              /\ query.cards[i].nextReview = query.cards[j].nextReview
              /\ query.cards[i].nextReview <= query.now )
            => Pos(query.value, query.cards[i]) < Pos(query.value, query.cards[j])

\* C15 witness: a tie between the first and the last card, and an earlier
\* card between them that the sort has to move to the front
C15_Witness ==
    /\ query.op = "getDueCards"
    /\ Len(query.cards) = 3
    /\ Len(query.value) = 3
    /\ query.cards[1].nextReview = query.cards[3].nextReview
    /\ query.cards[2].nextReview < query.cards[1].nextReview
    /\ query.value = <<query.cards[2], query.cards[1], query.cards[3]>>

\* C16: after getDueCards, getDueCardsCount or getCardsByUrgency the array
\* that was passed in has the same cards in the same order as before.
C16_InputArrayUnchanged ==
    query.op # "none" => cards = query.cards

\* C16 witness: getDueCards returned the cards in another order than the
\* input has, and the input is as it was
C16_Witness ==
    /\ query.op = "getDueCards"
    /\ Len(query.value) = Len(query.cards)
    /\ query.value # query.cards
    /\ cards = query.cards

\* C17: in getCardsByUrgency a card with nextReview < now is in overdue
\* exactly when its calendar day is not now's; one due earlier on the same
\* day is in dueToday and not in overdue.
C17_OverdueByCalendarDay ==
    query.op = "getCardsByUrgency" =>
        \A i \in 1 .. Len(query.cards) :
            LET c == query.cards[i] IN
            c.nextReview < query.now =>
                /\ InSeq(query.value.overdue, c)
                      <=> (c.nextReview \div TicksPerDay # query.now \div TicksPerDay)
                /\ (c.nextReview \div TicksPerDay = query.now \div TicksPerDay)
                      => (InSeq(query.value.dueToday, c) /\ ~InSeq(query.value.overdue, c))

\* C17 witness: one card due earlier today, one due on the day before
C17_Witness ==
    /\ query.op = "getCardsByUrgency"
    /\ \E i, j \in 1 .. Len(query.cards) :
          /\ query.cards[i].nextReview < query.now
          /\ query.cards[i].nextReview \div TicksPerDay = query.now \div TicksPerDay
          /\ InSeq(query.value.dueToday, query.cards[i])
          /\ query.cards[j].nextReview \div TicksPerDay < query.now \div TicksPerDay
          /\ InSeq(query.value.overdue, query.cards[j])

\* the last instant of the calendar day of now (23:59:59.999)
LastInstantOfDay(now) ==
    CHOOSE e \in now .. (now + TicksPerDay) :
        /\ e \div TicksPerDay = now \div TicksPerDay
        /\ (e + 1) \div TicksPerDay # now \div TicksPerDay

\* C18: in getCardsByUrgency a card with nextReview >= now is in dueToday
\* when nextReview <= endOfToday, in dueTomorrow when endOfToday < nextReview
\* <= endOfTomorrow (endOfToday + 1 day), in upcoming when later.
C18_BucketsFromNow ==
    query.op = "getCardsByUrgency" =>
        \A i \in 1 .. Len(query.cards) :
            LET c == query.cards[i]
                endOfToday == LastInstantOfDay(query.now)
                endOfTomorrow == endOfToday + TicksPerDay
            IN
            c.nextReview >= query.now =>
                /\ InSeq(query.value.dueToday, c) <=> c.nextReview <= endOfToday
                /\ InSeq(query.value.dueTomorrow, c)
                      <=> (endOfToday < c.nextReview /\ c.nextReview <= endOfTomorrow)
                /\ InSeq(query.value.upcoming, c) <=> c.nextReview > endOfTomorrow
                /\ ~InSeq(query.value.overdue, c)

\* C18 witness: cards due at the last instant of today, at the last instant
\* of tomorrow and one instant later
C18_Witness ==
    /\ query.op = "getCardsByUrgency"
    /\ query.now < LastInstantOfDay(query.now)
    /\ \E i, j, k \in 1 .. Len(query.cards) :
          /\ query.cards[i].nextReview = LastInstantOfDay(query.now)
          /\ InSeq(query.value.dueToday, query.cards[i])
          /\ query.cards[j].nextReview = LastInstantOfDay(query.now) + TicksPerDay
          /\ InSeq(query.value.dueTomorrow, query.cards[j])
          /\ query.cards[k].nextReview = LastInstantOfDay(query.now) + TicksPerDay + 1
          /\ InSeq(query.value.upcoming, query.cards[k])

\* C19: each of overdue, dueToday, dueTomorrow and upcoming is sorted
\* ascending by nextReview, whatever the order of the input.
C19_BucketsSorted ==
    query.op = "getCardsByUrgency" =>
        /\ SortedByNextReview(query.value.overdue)
        /\ SortedByNextReview(query.value.dueToday)
        /\ SortedByNextReview(query.value.dueTomorrow)
        /\ SortedByNextReview(query.value.upcoming)

\* C19 witness: two cards of one bucket are in descending order in the input
C19_Witness ==
    /\ query.op = "getCardsByUrgency"
    /\ \E i, j \in 1 .. Len(query.cards) :
          /\ i < j
          /\ query.cards[j].nextReview < query.cards[i].nextReview
          /\ InSeq(query.value.dueTomorrow, query.cards[i])
          /\ InSeq(query.value.dueTomorrow, query.cards[j])

\* C20: a card that was never reviewed has repetitions 0, easeFactor 2.5,
\* interval 0, lastReviewed null and nextReview = createdAt = its creation
\* time, and getDueCards(cards, t) contains it for every t >= that time.
C20_NewCardImmediatelyDue ==
    /\ \A i \in 1 .. Len(cards) :
          log[i].qualities = << >> =>
              /\ cards[i].repetitions = 0
              /\ cards[i].easeFactor = 2500
              /\ cards[i].interval = 0
              /\ cards[i].lastReviewed = Null
              /\ cards[i].nextReview = log[i].created
              /\ cards[i].createdAt = log[i].created
    /\ query.op = "getDueCards" =>
          \A i \in 1 .. Len(cards) :
              (log[i].qualities = << >> /\ query.now >= log[i].created)
                  => InSeq(query.value, cards[i])

\* C20 witness: getDueCards at the very instant a card was created returned
\* that card
C20_Witness ==
    /\ query.op = "getDueCards"
    /\ \E i \in 1 .. Len(cards) :
          /\ log[i].qualities = << >>
          /\ query.now = log[i].created
          /\ InSeq(query.value, cards[i])

\* C29: in every state reached from a new card by valid reviews, repetitions
\* 0 goes with interval 0 (never reviewed) or 1, repetitions 1 with interval
\* 1, repetitions 2 with interval 6, repetitions >= 3 with interval >= 8;
\* the interval is >= 1 after any review; and a successful review of a card
\* with repetitions >= 2 gives an interval strictly greater than the one
\* before.
C29_RepetitionsTieInterval ==
    /\ [](\A i \in 1 .. Len(cards) :
            LET c == cards[i] IN
            /\ c.repetitions = 0 => c.interval \in {0, 1}
            /\ c.interval = 0 <=> log[i].qualities = << >>
            /\ c.repetitions = 1 => c.interval = 1
            /\ c.repetitions = 2 => c.interval = 6
            /\ c.repetitions >= 3 => c.interval >= 8
            /\ log[i].qualities # << >> => c.interval >= 1)
    /\ [][\A i \in 1 .. Len(cards) :
            ( /\ Len(cards') = Len(cards)
              /\ Len(log'[i].qualities) = Len(log[i].qualities) + 1
              /\ log'[i].qualities[Len(log'[i].qualities)] >= 3
              /\ cards[i].repetitions >= 2 )
            => cards'[i].interval > cards[i].interval]_vars

\* C29 witness: three reviews of quality 3 took a new card to repetitions 3
\* with interval 12 (6 * 2.08, rounded), after interval 6
C29_Witness ==
    \E i \in 1 .. Len(cards) :
        /\ log[i].qualities = <<3, 3, 3>>
        /\ cards[i].repetitions = 3
        /\ cards[i].easeFactor = 2080
        /\ cards[i].interval = 12

\* C30: the four arrays of getCardsByUrgency hold every card of the input
\* exactly once between them; every card in overdue has nextReview <= now;
\* and every card getDueCards returns for the same array and instant is in
\* overdue or dueToday, not in dueTomorrow or upcoming.
C30_BucketsPartitionAndCoverDue ==
    query.op = "getCardsByUrgency" =>
        LET v == query.value
            all == v.overdue \o v.dueToday \o v.dueTomorrow \o v.upcoming
            due == getDueCards(query.cards, query.now).value
        IN
        /\ Len(all) = Len(query.cards)
        /\ \A k \in 1 .. Len(query.cards) : Occurrences(all, query.cards[k]) = 1
        /\ \A k \in 1 .. Len(v.overdue) : v.overdue[k].nextReview <= query.now
        /\ \A k \in 1 .. Len(due) :
              /\ due[k].nextReview <= query.now
              /\ InSeq(v.overdue, due[k]) \/ InSeq(v.dueToday, due[k])
              /\ ~InSeq(v.dueTomorrow, due[k])
              /\ ~InSeq(v.upcoming, due[k])

\* C30 witness: an array of three cards: one overdue, one due exactly now
\* (in dueToday) and one due later (in dueTomorrow); the first two are due
C30_Witness ==
    /\ query.op = "getCardsByUrgency"
    /\ Len(query.cards) = 3
    /\ Len(query.value.overdue) = 1
    /\ Len(query.value.dueTomorrow) = 1
    /\ \E k \in 1 .. Len(query.value.dueToday) :
          query.value.dueToday[k].nextReview = query.now
    /\ Len(getDueCards(query.cards, query.now).value) = 2

\* C24: in every session reached from createStudySession by updateStudySession
\* calls, totalCards = length of cardsReviewed = correctAnswers +
\* incorrectAnswers, the correct ones being exactly the reviews of quality
\* >= 3; a call with a review appends exactly that review; and the session
\* passed in is left as it was.
C24_SessionCountersConsistent ==
    LET s == session.held
        correct == {k \in 1 .. Len(s.cardsReviewed) : s.cardsReviewed[k].quality >= 3}
    IN
    /\ s.totalCards = Len(s.cardsReviewed)
    /\ s.totalCards = s.correctAnswers + s.incorrectAnswers
    /\ s.correctAnswers = Cardinality(correct)
    /\ s.incorrectAnswers = Len(s.cardsReviewed) - Cardinality(correct)
    /\ session.op = "updateStudySession" =>
          /\ session.after = session.passed
          /\ session.review # << >> =>
                /\ s.cardsReviewed =
                      Append(session.passed.cardsReviewed, session.review[1])
                /\ s.totalCards = session.passed.totalCards + 1

\* C24 witness: a session with a review of quality 3 (correct) and one of
\* quality 2 (incorrect), just extended by the second of them
C24_Witness ==
    /\ session.op = "updateStudySession"
    /\ session.review # << >>
    /\ Len(session.held.cardsReviewed) = 2
    /\ session.held.cardsReviewed[1].quality = 3
    /\ session.held.cardsReviewed[2].quality = 2
    /\ session.held.correctAnswers = 1
    /\ session.held.incorrectAnswers = 1
    /\ Len(session.passed.cardsReviewed) = 1

\* C23: every quality FlashCardComponent passes to onRate is one of 1, 2, 4
\* and 5 (never 0 or 3), it is passed only while the answer is revealed in
\* study mode, and a review made with it does not raise the invalid-quality
\* error.
C23_UiEmitsFourRatings ==
    \A k \in 1 .. Len(ui.rated) :
        /\ ui.rated[k].quality \in {1, 2, 4, 5}
        /\ ui.rated[k].isRevealed
        /\ ui.rated[k].studyMode
        /\ ~ui.rated[k].threw

\* C23 witness: the answer was revealed twice and rated Again, then Easy
C23_Witness ==
    /\ Len(ui.rated) = 2
    /\ ui.rated[1].quality = 1
    /\ ui.rated[2].quality = 5
    /\ ~ui.isRevealed

\* C27: a successful result of generateFlashcards(text, {maxCards}) holds at
\* most maxCards flashcards, the fallback cards included.
C27_RespectsMaxCards ==
    (gen.op = "generateFlashcards" /\ gen.result.success) =>
        Len(gen.result.flashcards) <= gen.maxCards

\* C21: saveFlashCard(card) followed by getFlashCard(card.id) returns a card
\* with the same repetitions, easeFactor, interval, nextReview, createdAt
\* and updatedAt, and with the same lastReviewed: the same instant when it
\* is a date, null when it is null.
C21_StorageRoundTrip ==
    (io.op = "saveFlashCard" /\ ~io.threw) =>
        LET got == getFlashCard(storage, io.arg.id) IN
        /\ Len(got) = 1
        /\ got[1].repetitions = io.arg.repetitions
        /\ got[1].easeFactor = io.arg.easeFactor
        /\ got[1].interval = io.arg.interval
        /\ got[1].nextReview = io.arg.nextReview
        /\ got[1].createdAt = io.arg.createdAt
        /\ got[1].updatedAt = io.arg.updatedAt
        /\ io.arg.lastReviewed = Null => got[1].lastReviewed = Null
        /\ io.arg.lastReviewed # Null => got[1].lastReviewed = io.arg.lastReviewed

\* C21 witness: a card last reviewed at the epoch and due six days later was
\* saved over a never-reviewed card stored under the same id, and reads
\* back with these two dates
C21_Witness ==
    /\ io.op = "saveFlashCard"
    /\ ~io.threw
    /\ io.arg.lastReviewed = 0
    /\ io.arg.nextReview = 6 * TicksPerDay
    /\ getFlashCard(io.before, io.arg.id) # << >>
    /\ getFlashCard(io.before, io.arg.id)[1].lastReviewed = Null
    /\ getFlashCard(storage, io.arg.id)[1].lastReviewed = 0
    /\ getFlashCard(storage, io.arg.id)[1].nextReview = 6 * TicksPerDay

\* C25: saveFlashCard of a card with an empty or blank question or answer,
\* easeFactor < 1.3, repetitions < 0 or interval < 0 is rejected, and
\* localStorage is exactly what it was before the call.
C25_InvalidCardNotSaved ==
    ( /\ io.op = "saveFlashCard"
      /\ \/ io.arg.question \in {"", " ", " \t\n "}
         \/ io.arg.answer \in {"", " ", " \t\n "}
         \/ io.arg.easeFactor < 1300
         \/ io.arg.repetitions < 0
         \/ io.arg.interval < 0 )
    => /\ io.threw
       /\ io.error = "Invalid flashcard data"
       /\ storage = io.before

\* C25 witness: a card with a blank question was turned down while a valid
\* card was stored under its id; that entry is still there
C25_Witness ==
    /\ io.op = "saveFlashCard"
    /\ io.arg.question = " "
    /\ io.threw
    /\ getFlashCard(io.before, io.arg.id) # << >>
    /\ getFlashCard(storage, io.arg.id) = getFlashCard(io.before, io.arg.id)

\* the ids of the items of an array
Ids(items) == {items[k].id : k \in 1 .. Len(items)}

\* `got` holds the items of `given`, one per id, and nothing else
SameItems(got, given) ==
    /\ Ids(got) = Ids(given)
    /\ Len(got) = Cardinality(Ids(given))
    /\ \A k \in 1 .. Len(got) : InSeq(given, got[k])

\* C26: once importData(data) has completed, getAllFlashCards, getAllContent
\* and getAllStudySessions return exactly the items of data (by id), and no
\* entry of the service that was stored before the call is left, whatever
\* was stored.
C26_ImportOverwrites ==
    (io.op = "importData" /\ ~io.threw) =>
        /\ SameItems(getAllFlashCards(storage), io.arg.flashCards)
        /\ SameItems(getAllContent(storage), io.arg.content)
        /\ SameItems(getAllStudySessions(storage), io.arg.studySessions)
        /\ \A i \in 1 .. Len(storage) :
              LET key == storage[i].key IN
              /\ StartsWith(key, FLASHCARD_PREFIX) =>
                    extractIdFromKey(key, FLASHCARD_PREFIX) \in Ids(io.arg.flashCards)
              /\ StartsWith(key, CONTENT_PREFIX) =>
                    extractIdFromKey(key, CONTENT_PREFIX) \in Ids(io.arg.content)
              /\ StartsWith(key, STUDY_SESSION_PREFIX) =>
                    extractIdFromKey(key, STUDY_SESSION_PREFIX) \in Ids(io.arg.studySessions)

\* C26 witness: a card, a note and a session were stored; the import of
\* another card, another note and another session left only these three
C26_Witness ==
    /\ io.op = "importData"
    /\ ~io.threw
    /\ Ids(getAllFlashCards(io.before)) = {1}
    /\ Ids(getAllContent(io.before)) = {7}
    /\ Ids(getAllStudySessions(io.before)) = {8}
    /\ Ids(getAllFlashCards(storage)) = {2}
    /\ Ids(getAllContent(storage)) = {4}
    /\ Ids(getAllStudySessions(storage)) = {5}

\* C28: when a stored card that passes validateFlashCard is fetched, reviewed
\* with a quality 0..5 and saved, the reviewed card has easeFactor >= 1.3,
\* repetitions >= 0, interval >= 0 and the same question and answer, the
\* save is not rejected, and the reviewed card is what is stored then.
C28_ReviewedCardPersistable ==
    (io.op = "reviewStoredCard" /\ validateFlashCard(io.arg)) =>
        /\ Len(io.value) = 1
        /\ io.value[1].easeFactor >= 1300
        /\ io.value[1].repetitions >= 0
        /\ io.value[1].interval >= 0
        /\ io.value[1].question = io.arg.question
        /\ io.value[1].answer = io.arg.answer
        /\ validateFlashCard(io.value[1])
        /\ ~io.threw
        /\ getFlashCard(storage, io.arg.id) = io.value

\* C28 witness: a stored card at the minimum ease factor was reviewed with
\* quality 0 and saved
C28_Witness ==
    /\ io.op = "reviewStoredCard"
    /\ io.arg.easeFactor = 1300
    /\ io.arg.repetitions = 5
    /\ io.quality = 0
    /\ ~io.threw
    /\ getFlashCard(storage, io.arg.id)[1].easeFactor = 1300
    /\ getFlashCard(storage, io.arg.id)[1].repetitions = 0

\* C22: when tasks review distinct cards in any interleaving, no call
\* changes the shared array (a card stays as it was until its own task
\* writes), and each card ends as the review of its original state with its
\* task's quality, made alone at the instant of the task's call, gives it.
C22_ConcurrentReviewsIndependent ==
    \A t \in 1 .. Len(tasks) :
        LET alone == updateCardAfterReview(tasks[t].original, tasks[t].quality,
                                           tasks[t].time, tasks[t].time,
                                           tasks[t].time).value
        IN
        /\ tasks[t].pc \in {"start", "fetched"} => cards[t] = tasks[t].original
        /\ tasks[t].pc = "reviewed" =>
              /\ cards[t] = tasks[t].original
              /\ tasks[t].result = alone
        /\ tasks[t].pc = "done" => <<cards[t]>> = alone

\* C22 witness: two tasks are done, the first one called the scheduler
\* before the second did and wrote while the second was in flight; the
\* first card failed its review, the second passed
C22_Witness ==
    /\ Len(tasks) >= 2
    /\ tasks[1].pc = "done"
    /\ tasks[2].pc = "done"
    /\ tasks[1].overlapped
    /\ tasks[1].time < tasks[2].time
    /\ cards[1].repetitions = 0
    /\ cards[1].lastReviewed = tasks[1].time
    /\ cards[2].repetitions = 1
    /\ cards[2].lastReviewed = tasks[2].time

====
